---- MODULE Spec2Model ----
(***************************************************************************)
(* Buddy allocator of kernel/buddy.c.                                      *)
(*                                                                         *)
(* Memory is modelled at the level the code works on it: addresses are     *)
(* integers, the bitmaps live in one bit-addressed memory `mem` (the set   *)
(* of bit numbers that are 1, bit i of the byte at address a being bit     *)
(* number 8*a + i), and each size class k has the record bd_sizes[k] with  *)
(* its free list and the addresses of its alloc and split arrays.  Two     *)
(* arrays that bd_init places at the same address share their bits.        *)
(***************************************************************************)
EXTENDS Integers, Sequences, FiniteSets, Bags, TLC

\* ------------------------------------------------------------------ bounds
\* Threads calling bd_malloc / bd_free concurrently.
Threads == { 1, 2 }
\* Bound on the number of blocks the callers hold at the same time.
MaxLive == 2
\* The (base, end) arguments bd_init is called with: a range of exactly 256
\* bytes, two of 300 and 320 bytes (the first from an unaligned base), one of
\* exactly 512 bytes, and two ranges barely larger than, and smaller than,
\* the 176 bytes of metadata they need.
Regions ==
  { <<16, 272>>, <<24, 332>>, <<16, 336>>, <<32, 544>>, <<16, 216>>,
    <<16, 166>> }
\* The request sizes passed to bd_malloc, and two that need all 64 bits of
\* nbytes, written as four 16-bit digits: 2^63 and 2^63 + 1.
Sizes == { 1, 16, 17, 32, 33, 64, 65, 600 }
HugeSizes == { << 32768, 0, 0, 0 >>, << 32768, 0, 0, 1 >> }

\* --------------------------------------------------------------- constants
LEAF_SIZE == 16
\* sizeof(Sz_info): struct list (two pointers) and two char pointers
SZ_INFO == 32
NULL == 0

VARIABLES
  phase,      \* "boot" before bd_init, then "ready", or "panic" if it aborted
  nsizes,     \* static int nsizes
  bd_base,    \* static void *bd_base
  bd_sizes,   \* static Sz_info *bd_sizes: k -> [free, alloc, split]
  mem,        \* bits of the bitmap memory that are 1
  lock,       \* static struct spinlock lock: the set of threads holding it
  pc,         \* per thread: "idle", "malloc" or "free" (inside the call),
              \* "spin" in the loop of firstk once it cannot end
  arg,        \* per thread: nbytes of bd_malloc (a uint64), p of bd_free
  m_left,     \* MARK_META m_left of bd_init
  m_right,    \* MARK_META m_right of bd_init
  live,       \* the callers' blocks (a bag of [addr, k]): returned by
              \* bd_malloc for a request of size k, not yet freed
  initFree,   \* the free lists (as sets) as bd_init left them
  hist        \* the last completed call: op is "malloc" (p returned for
              \* nbytes n, pre the free lists before it), "fail" (0 returned),
              \* "back" (a free of the p the call before it returned) or "free"

vars == << phase, nsizes, bd_base, bd_sizes, mem, lock, pc, arg,
           m_left, m_right, live, initFree, hist >>

\* ------------------------------------------------------------------ macros
Pow2(n) == 2 ^ n
MAXSIZE == nsizes - 1
BLK_SIZE(k) == Pow2(k) * LEAF_SIZE
HEAP_SIZE == BLK_SIZE(MAXSIZE)
NBLK(k) == Pow2(MAXSIZE - k)
ROUNDUP(n, sz) == (((n - 1) \div sz) + 1) * sz

\* -------------------------------------------------------------- bit vector
bit_isset(m, array, index) == (8 * array + index) \in m
bit_set(m, array, index) == m \cup { 8 * array + index }
bit_clear(m, array, index) == m \ { 8 * array + index }
bit_flip(m, array, index) ==
  IF bit_isset(m, array, index) THEN bit_clear(m, array, index)
  ELSE bit_set(m, array, index)

\* --------------------------------------------------------------- free list
\* kernel/list.c: a list of block addresses
lst_empty(lst) == lst = << >>
lst_push(lst, p) == << p >> \o lst
lst_remove(lst, q) == SelectSeq(lst, LAMBDA e : e # q)
\* lst_pop takes a member off the list; which one is the list's business.
lst_pop(lst) == { lst[i] : i \in DOMAIN lst }

\* ------------------------------------------------------- address <-> index
\* blk_index, addr and blk_index_next with the global bd_base they read made
\* explicit: bd_init assigns bd_base and then calls bd_mark, which uses them.
blk_index_at(base, k, p) == (p - base) \div (Pow2(k) * LEAF_SIZE)
addr_at(base, k, bi) == base + bi * (Pow2(k) * LEAF_SIZE)
blk_index_next_at(base, k, p) ==
  LET n == (p - base) \div (Pow2(k) * LEAF_SIZE) IN
  IF (p - base) % (Pow2(k) * LEAF_SIZE) # 0 THEN n + 1 ELSE n

blk_index(k, p) == blk_index_at(bd_base, k, p)
addr(k, bi) == addr_at(bd_base, k, bi)

\* ------------------------------------------------------------------ uint64
\* A uint64 is the tuple of its four 16-bit digits, the most significant
\* first.  U64(n) is the uint64 of a small natural n.
U64(n) == << 0, 0, n \div 65536, n % 65536 >>
\* x < y on uint64
u64_lt(x, y) ==
  IF x[1] # y[1] THEN x[1] < y[1]
  ELSE IF x[2] # y[2] THEN x[2] < y[2]
  ELSE IF x[3] # y[3] THEN x[3] < y[3]
  ELSE x[4] < y[4]
\* x * 2 on uint64: the carry out of the top digit is lost (mod 2^64)
u64_dbl(x) ==
  << (2 * x[1] + (IF x[2] >= 32768 THEN 1 ELSE 0)) % 65536,
     (2 * x[2] + (IF x[3] >= 32768 THEN 1 ELSE 0)) % 65536,
     (2 * x[3] + (IF x[4] >= 32768 THEN 1 ELSE 0)) % 65536,
     (2 * x[4]) % 65536 >>

\* The request sizes as the uint64 values bd_malloc receives.
Requests == { U64(n) : n \in Sizes } \cup HugeSizes

\* What firstk yields when its loop never ends.
NoReturn == -1
\* The loop of firstk, lines 105-108.  Once size has wrapped to 0 it stays 0
\* and size < n stays true: the loop cannot end.
RECURSIVE firstk_loop(_, _, _)
firstk_loop(k, size, n) ==
  IF u64_lt(size, n)
  THEN IF size = U64(0) THEN NoReturn
       ELSE firstk_loop(k + 1, u64_dbl(size), n)
  ELSE k
\* Mutant of firstk: k starts at 1.
firstk_le(n) == firstk_loop(1, U64(LEAF_SIZE), n)
firstk(n) == firstk_loop(0, U64(LEAF_SIZE), n)
\* Line 131, int fk = firstk(nbytes), for each of the requests.
fk_of == [ n \in Requests |-> firstk(n) ]

RECURSIVE log2(_)
log2(n) == IF n > 1 THEN 1 + log2(n \div 2) ELSE 0
\* ------------------------------------------------------------ range marking
\* The inner loop of bd_mark, lines 240-247: blocks bi..bj-1 of size k.
RECURSIVE bd_mark_blocks(_, _, _, _, _)
bd_mark_blocks(m, sizes, k, bi, bj) ==
  IF bi < bj
  THEN LET m1 == IF k > 0 THEN bit_set(m, sizes[k].split, bi) ELSE m
           m2 == bit_flip(m1, sizes[k].alloc, bi \div 2)
       IN bd_mark_blocks(m2, sizes, k, bi + 1, bj)
  ELSE m

\* The sizes whose boundary blocks bd_mark puts on a free list: k < nsizes - 2.
bd_mark_frees(k, n) == k < n - 2
\* Mutant of bd_mark_left_blk: the last block of the range itself.
bd_mark_left_blk_inner(bj) == bj - 1
\* The block bd_mark frees beside a range at the low end (line 224).
bd_mark_left_blk(bj) == bj
\* The block bd_mark frees beside a range at the high end (line 228).
\* Mutant of bd_mark_right_blk: the first block of the range itself.
bd_mark_right_blk_inner(bi) == bi
bd_mark_right_blk(bi) == bi - 1

\* One iteration of the outer loop of bd_mark, lines 219-247, on the state
\* st = [sizes, mem, free_ret]; n and base are the globals nsizes and bd_base
\* as bd_init has assigned them.
bd_mark_size(st, k, n, base, start, stop, is_left) ==
  LET bi == blk_index_at(base, k, start)
      bj == blk_index_next_at(base, k, stop)
      bs == Pow2(k) * LEAF_SIZE
      pushL == bd_mark_frees(k, n) /\ is_left /\ bj % 2 = 1
      pushR == bd_mark_frees(k, n) /\ ~is_left /\ bi % 2 = 1
      f1 == IF pushL THEN lst_push(st.sizes[k].free,
                                 addr_at(base, k, bd_mark_left_blk(bj)))
            ELSE st.sizes[k].free
      f2 == IF pushR THEN lst_push(f1, addr_at(base, k, bd_mark_right_blk(bi))) ELSE f1
      ret == st.free_ret + (IF pushL THEN bs ELSE 0) + (IF pushR THEN bs ELSE 0)
      sizes1 == [st.sizes EXCEPT ![k].free = f2]
      m1 == IF bi % 2 # 0 THEN bit_set(st.mem, sizes1[k].alloc, bi \div 2)
            ELSE st.mem
      m2 == IF bj % 2 # 0 THEN bit_set(m1, sizes1[k].alloc, bj \div 2) ELSE m1
  IN [ sizes |-> sizes1,
       mem |-> bd_mark_blocks(m2, sizes1, k, bi, bj),
       free_ret |-> ret ]

RECURSIVE bd_mark_loop(_, _, _, _, _, _, _)
bd_mark_loop(st, k, n, base, start, stop, is_left) ==
  IF k < n
  THEN bd_mark_loop(bd_mark_size(st, k, n, base, start, stop, is_left),
                    k + 1, n, base, start, stop, is_left)
  ELSE st

\* bd_mark(start, stop, is_left) on the tables sizes and the memory m: the
\* result is [sizes, mem, free_ret, panic], panic for a misaligned range.
bd_mark(sizes, m, n, base, start, stop, is_left) ==
  IF start % LEAF_SIZE # 0 \/ stop % LEAF_SIZE # 0
  THEN [ sizes |-> sizes, mem |-> m, free_ret |-> 0, panic |-> TRUE ]
  ELSE LET r == bd_mark_loop([ sizes |-> sizes, mem |-> m, free_ret |-> 0 ],
                             0, n, base, start, stop, is_left)
       IN [ sizes |-> r.sizes, mem |-> r.mem, free_ret |-> r.free_ret,
            panic |-> FALSE ]

\* ---------------------------------------------------------------- bd_init
\* a / b of C on signed integers, b > 0: the quotient is truncated towards 0.
sdiv(a, b) == IF a >= 0 THEN a \div b ELSE -((-a) \div b)
\* Mutant of bd_init_nsizes: the count is never rounded up.
bd_init_nsizes_floor(p, end) == log2(sdiv(end - p, LEAF_SIZE)) + 1
\* Lines 283-287: the number of sizes for the range [p, end).
bd_init_nsizes(p, end) ==
  LET n == log2(sdiv(end - p, LEAF_SIZE)) + 1 IN
  IF end - p > Pow2(n - 1) * LEAF_SIZE THEN n + 1 ELSE n

\* Bytes bd_init gives to the alloc array of size k (line 300) and to its
\* split array (line 309), n being nsizes.
alloc_sz(k, n) == ROUNDUP(Pow2(n - 1 - k), 8) \div 16
split_sz(k, n) == ROUNDUP(Pow2(n - 1 - k), 8) \div 8

\* The arrays follow one another (p += sz, lines 303 and 312): the offset of
\* the alloc array of size k from the first one, and of the split array of
\* size k from the split array of size 1.
RECURSIVE alloc_off(_, _)
alloc_off(k, n) ==
  IF k = 0 THEN 0 ELSE alloc_off(k - 1, n) + alloc_sz(k - 1, n)
RECURSIVE split_off(_, _)
split_off(k, n) ==
  IF k <= 1 THEN 0 ELSE split_off(k - 1, n) + split_sz(k - 1, n)

\* Lines 292-313: the table at p0 and the arrays laid out after it; the
\* memset calls leave every bit of the arrays 0.
bd_init_layout(p0, n) ==
  LET a0 == p0 + SZ_INFO * n
      s0 == a0 + alloc_off(n, n)
  IN [ sizes |-> [ k \in 0..(n - 1) |->
                     [ free |-> << >>,
                       alloc |-> a0 + alloc_off(k, n),
                       split |-> IF k >= 1 THEN s0 + split_off(k, n)
                                 ELSE NULL ] ],
       p |-> s0 + split_off(n, n) ]

\* The free lists of the table sizes as sets of addresses, one per size.
FreeSets(sizes) ==
  [ k \in DOMAIN sizes |-> { sizes[k].free[i] : i \in DOMAIN sizes[k].free } ]

Hist(op) == [ op |-> op, p |-> NULL, n |-> U64(0), pre |-> << >> ]

\* bd_mark_data_structures(p, &m_left), lines 258-263
bd_mark_data_structures(sizes, m, n, base, p) ==
  LET r == bd_mark(sizes, m, n, base, base, p, TRUE)
  IN [ meta |-> p - base, free |-> r.free_ret,
       sizes |-> r.sizes, mem |-> r.mem, panic |-> r.panic ]

\* bd_mark_unavailable(end, left, &m_right), lines 266-273
bd_mark_unavailable(sizes, m, n, base, end) ==
  LET heap == Pow2(n - 1) * LEAF_SIZE
      meta0 == heap - (end - base)
      meta == IF meta0 > 0 THEN ROUNDUP(meta0, LEAF_SIZE) ELSE meta0
      bd_end == base + heap - meta
      r == bd_mark(sizes, m, n, base, bd_end, base + heap, FALSE)
  IN [ meta |-> meta, free |-> r.free_ret,
       sizes |-> r.sizes, mem |-> r.mem, panic |-> r.panic ]

\* The check that ends bd_init, lines 325-330: TRUE when it passes.
bd_init_free_ok(heap, left, right) ==
  left.free + right.free = heap - left.meta - right.meta

\* bd_init(base, end), lines 276-331
bd_init(base, end) ==
  /\ phase = "boot"
  /\ LET p0 == ROUNDUP(base, LEAF_SIZE)
         n == bd_init_nsizes(p0, end)
         lay == bd_init_layout(p0, n)
         p == ROUNDUP(lay.p, LEAF_SIZE)
         left == bd_mark_data_structures(lay.sizes, {}, n, p0, p)
         right == bd_mark_unavailable(left.sizes, left.mem, n, p0, end)
         ok == /\ ~left.panic
               /\ ~right.panic
               /\ bd_init_free_ok(Pow2(n - 1) * LEAF_SIZE, left, right)
     IN /\ bd_base' = p0
        /\ nsizes' = n
        /\ bd_sizes' = right.sizes
        /\ mem' = right.mem
        /\ m_left' = [ meta |-> left.meta, free |-> left.free ]
        /\ m_right' = [ meta |-> right.meta, free |-> right.free ]
        /\ initFree' = FreeSets(right.sizes)
        /\ phase' = IF ok THEN "ready" ELSE "panic"
  /\ UNCHANGED << lock, pc, arg, live, hist >>

\* -------------------------------------------------------------- spinlock
\* kernel/spinlock.c: acquire spins until the lock is free, release frees it.
acquire(t) == lock = {} /\ lock' = {t}
release(t) == lock' = lock \ {t}

\* --------------------------------------------------------------- bd_malloc
\* Lines 132-134: the first size k >= fk with a non-empty free list, or
\* nsizes when there is none.
RECURSIVE bd_malloc_scan(_, _)
bd_malloc_scan(sizes, k) ==
  IF k < nsizes /\ lst_empty(sizes[k].free) THEN bd_malloc_scan(sizes, k + 1)
  ELSE k
\* Mutant of bd_malloc_find: the scan starts above fk.
bd_malloc_find_above(sizes, fk) == bd_malloc_scan(sizes, fk + 1)
bd_malloc_find(sizes, fk) == bd_malloc_scan(sizes, fk)

\* Mutant of bd_malloc_buddy: the half put on the free list is p itself.
bd_malloc_buddy_self(k, p) == p
\* Line 146: p's buddy at size k - 1.
bd_malloc_buddy(k, p) == p + BLK_SIZE(k - 1)

\* Mutant of bd_malloc_pop: the block stays on the free list.
bd_malloc_pop_keep(lst, p) == lst
\* Line 141: the list after lst_pop has taken p off it.
bd_malloc_pop(lst, p) == lst_remove(lst, p)

\* Mutant of bd_malloc_split_mark: the split bit is left as it was.
bd_malloc_split_skip(m, array, index) == m
\* Line 147: the block being halved is marked split.
bd_malloc_split_mark(m, array, index) == bit_set(m, array, index)

\* Lines 143-150: split p from size k down to size fk; st = [sizes, mem].
RECURSIVE bd_malloc_split(_, _, _, _)
bd_malloc_split(st, k, fk, p) ==
  IF k > fk
  THEN LET q == bd_malloc_buddy(k, p)
           m1 == bd_malloc_split_mark(st.mem, st.sizes[k].split,
                                      blk_index(k, p))
           m2 == bit_flip(m1, st.sizes[k - 1].alloc, blk_index(k - 1, p) \div 2)
           sizes1 == [st.sizes EXCEPT ![k - 1].free = lst_push(@, q)]
       IN bd_malloc_split([ sizes |-> sizes1, mem |-> m2 ], k - 1, fk, p)
  ELSE st

\* Lines 141-150 for the block p popped from the free list of size k.
bd_malloc_take(sizes, m, k, fk, p) ==
  LET sizes1 == [sizes EXCEPT ![k].free = bd_malloc_pop(@, p)]
      m1 == bit_flip(m, sizes[k].alloc, blk_index(k, p) \div 2)
  IN bd_malloc_split([ sizes |-> sizes1, mem |-> m1 ], k, fk, p)

\* Line 128: bd_malloc(nbytes) called by thread t, up to the lock.
bd_malloc_acquire(t, nbytes) ==
  /\ phase = "ready"
  /\ pc[t] = "idle"
  /\ BagCardinality(live) + Cardinality({ u \in Threads : pc[u] = "malloc" })
       < MaxLive
  /\ acquire(t)
  /\ pc' = [pc EXCEPT ![t] = "malloc"]
  /\ arg' = [arg EXCEPT ![t] = nbytes]
  /\ UNCHANGED << phase, nsizes, bd_base, bd_sizes, mem, m_left, m_right,
                  live, initFree, hist >>

\* Mutant of bd_malloc_fail_release: the path returns with the lock held.
bd_malloc_fail_keep(t) == lock' = lock
\* Line 136: the release on the path that returns 0.
bd_malloc_fail_release(t) == release(t)

\* Line 131 when the loop of firstk(nbytes) cannot end: the thread stays in
\* it, the lock held.
bd_malloc_spin(t) ==
  /\ pc[t] = "malloc"
  /\ fk_of[arg[t]] = NoReturn
  /\ pc' = [pc EXCEPT ![t] = "spin"]
  /\ UNCHANGED << phase, nsizes, bd_base, bd_sizes, mem, lock, arg, m_left,
                  m_right, live, initFree, hist >>

\* Lines 135-138: no free block, return 0.
bd_malloc_fail(t) ==
  /\ pc[t] = "malloc"
  /\ fk_of[arg[t]] # NoReturn
  /\ bd_malloc_find(bd_sizes, fk_of[arg[t]]) >= nsizes
  /\ bd_malloc_fail_release(t)
  /\ pc' = [pc EXCEPT ![t] = "idle"]
  /\ arg' = [arg EXCEPT ![t] = NULL]
  /\ hist' = Hist("fail")
  /\ UNCHANGED << phase, nsizes, bd_base, bd_sizes, mem, m_left, m_right,
                  live, initFree >>

\* Lines 140-153: pop a block, split it down to size fk, return it.
bd_malloc_ok(t) ==
  /\ pc[t] = "malloc"
  /\ fk_of[arg[t]] # NoReturn
  /\ LET fk == fk_of[arg[t]]
         k == bd_malloc_find(bd_sizes, fk)
     IN /\ k < nsizes
        /\ \E p \in lst_pop(bd_sizes[k].free) :
             LET st == bd_malloc_take(bd_sizes, mem, k, fk, p)
             IN /\ bd_sizes' = st.sizes
                /\ mem' = st.mem
                /\ live' = live (+) SetToBag({ [ addr |-> p, k |-> fk ] })
                /\ hist' = [ op |-> "malloc", p |-> p, n |-> arg[t],
                             pre |-> FreeSets(bd_sizes) ]
                /\ arg' = [arg EXCEPT ![t] = NULL]
  /\ release(t)
  /\ pc' = [pc EXCEPT ![t] = "idle"]
  /\ UNCHANGED << phase, nsizes, bd_base, m_left, m_right, initFree >>

\* ----------------------------------------------------------------- bd_free
\* size(p), lines 157-164, as the set of values the call can return.  For
\* k = nsizes - 1 the code reads bd_sizes[nsizes], past the end of the
\* table: the bit it finds there is not determined by the program.
RECURSIVE size_scan(_, _)
size_scan(p, k) ==
  IF k >= nsizes THEN { 0 }
  ELSE IF k + 1 >= nsizes THEN { k } \cup size_scan(p, k + 1)
  ELSE IF bit_isset(mem, bd_sizes[k + 1].split, blk_index(k + 1, p)) THEN { k }
  ELSE size_scan(p, k + 1)
size(p) == size_scan(p, 0)

\* Mutant of bd_free_mark: the pair's bit is cleared.
bd_free_mark_clear(m, array, index) == bit_clear(m, array, index)
\* Line 176: the update of the pair's alloc bit when p is freed at size k.
bd_free_mark(m, array, index) == bit_set(m, array, index)

\* lst_remove(q) of line 182: q leaves the list it is on.
bd_free_unlink(sizes, q) ==
  [ j \in DOMAIN sizes |-> [sizes[j] EXCEPT !.free = lst_remove(@, q)] ]

\* The loop of lines 173-189 from size k; st = [sizes, mem]; the result adds
\* the size k and the block p the loop ends with.
RECURSIVE bd_free_loop(_, _, _)
bd_free_loop(st, k, p) ==
  IF k < MAXSIZE
  THEN LET bi == blk_index(k, p)
           buddy == IF bi % 2 = 0 THEN bi + 1 ELSE bi - 1
           m1 == bd_free_mark(st.mem, st.sizes[k].alloc, bi \div 2)
       IN IF bit_isset(m1, st.sizes[k].alloc, bi \div 2)
          THEN [ sizes |-> st.sizes, mem |-> m1, k |-> k, p |-> p ]
          ELSE LET q == addr(k, buddy)
                   sizes1 == bd_free_unlink(st.sizes, q)
                   p1 == IF buddy % 2 = 0 THEN q ELSE p
                   m2 == bit_clear(m1, sizes1[k + 1].split,
                                   blk_index(k + 1, p1))
               IN bd_free_loop([ sizes |-> sizes1, mem |-> m2 ], k + 1, p1)
  ELSE [ sizes |-> st.sizes, mem |-> st.mem, k |-> k, p |-> p ]

\* Line 172: bd_free(p) called by thread t, up to the lock.  The caller
\* passes a block it holds and that no other thread is freeing.
bd_free_acquire(t, p) ==
  /\ phase = "ready"
  /\ pc[t] = "idle"
  /\ \E b \in BagToSet(live) : b.addr = p
  /\ \A u \in Threads : ~(pc[u] = "free" /\ arg[u] = p)
  /\ acquire(t)
  /\ pc' = [pc EXCEPT ![t] = "free"]
  /\ arg' = [arg EXCEPT ![t] = p]
  /\ UNCHANGED << phase, nsizes, bd_base, bd_sizes, mem, m_left, m_right,
                  live, initFree, hist >>

\* Lines 173-191: merge while the buddy is free, push the block, unlock.
bd_free_body(t) ==
  /\ pc[t] = "free"
  /\ \E k0 \in size(arg[t]) :
       LET r == bd_free_loop([ sizes |-> bd_sizes, mem |-> mem ], k0, arg[t])
       IN /\ bd_sizes' = [r.sizes EXCEPT ![r.k].free = lst_push(@, r.p)]
          /\ mem' = r.mem
  /\ \E b \in BagToSet(live) :
       b.addr = arg[t] /\ live' = live (-) SetToBag({ b })
  /\ hist' = IF hist.op = "malloc" /\ hist.p = arg[t]
             THEN [hist EXCEPT !.op = "back"] ELSE Hist("free")
  /\ release(t)
  /\ pc' = [pc EXCEPT ![t] = "idle"]
  /\ arg' = [arg EXCEPT ![t] = NULL]
  /\ UNCHANGED << phase, nsizes, bd_base, m_left, m_right, initFree >>

Init ==
  /\ phase = "boot"
  /\ nsizes = 0
  /\ bd_base = NULL
  /\ bd_sizes = << >>
  /\ mem = {}
  /\ lock = {}
  /\ pc = [ t \in Threads |-> "idle" ]
  /\ arg = [ t \in Threads |-> 0 ]
  /\ m_left = [ meta |-> 0, free |-> 0 ]
  /\ m_right = [ meta |-> 0, free |-> 0 ]
  /\ live = EmptyBag
  /\ initFree = << >>
  /\ hist = Hist("none")

Next ==
  \/ \E r \in Regions : bd_init(r[1], r[2])
  \/ \E t \in Threads, n \in Requests : bd_malloc_acquire(t, n)
  \/ \E t \in Threads : bd_malloc_spin(t)
  \/ \E t \in Threads : bd_malloc_fail(t)
  \/ \E t \in Threads : bd_malloc_ok(t)
  \/ \E t \in Threads : \E b \in BagToSet(live) : bd_free_acquire(t, b.addr)
  \/ \E t \in Threads : bd_free_body(t)

Spec == Init /\ [][Next]_vars

\* ------------------------------------------------- size as a pure function
\* size(p) reads p, nsizes and the split arrays.  SpecSize applies it to the
\* table bd_init lays out for the range SizeRegion, with every combination
\* of the split bits of the blocks that contain one of the addresses
\* SizeArgs.
SizeRegion == << 16, 272 >>
SizeArgs == { 192, 208 }
SizeBase == ROUNDUP(SizeRegion[1], LEAF_SIZE)
SizeN == bd_init_nsizes(SizeBase, SizeRegion[2])
SizeBits ==
  { 8 * bd_init_layout(SizeBase, SizeN).sizes[k].split
      + blk_index_at(SizeBase, k, p) : k \in 1..(SizeN - 1), p \in SizeArgs }

InitSize ==
  /\ phase = "ready"
  /\ nsizes = SizeN
  /\ bd_base = SizeBase
  /\ bd_sizes = bd_init_layout(SizeBase, SizeN).sizes
  /\ mem \in SUBSET SizeBits
  /\ lock = {}
  /\ pc = [ t \in Threads |-> "idle" ]
  /\ arg = [ t \in Threads |-> 0 ]
  /\ m_left = [ meta |-> 0, free |-> 0 ]
  /\ m_right = [ meta |-> 0, free |-> 0 ]
  /\ live = EmptyBag
  /\ initFree = << >>
  /\ hist = Hist("none")

\* A call size(p): hist records p and, as pre, the value returned.
size_call(p) ==
  /\ hist.op = "none"
  /\ \E k \in size(p) : hist' = [ op |-> "size", p |-> p, n |-> U64(0), pre |-> k ]
  /\ UNCHANGED << phase, nsizes, bd_base, bd_sizes, mem, lock, pc, arg,
                  m_left, m_right, live, initFree >>

NextSize == \E p \in SizeArgs : size_call(p)

SpecSize == InitSize /\ [][NextSize]_vars

\* ------------------------------------ the number of sizes as a pure function
\* Lines 277-287 of bd_init compute bd_base and nsizes from base and end.
\* SpecNsizes applies them to every base in InitBases and every end that
\* lies a number of bytes in InitLens above it; hist holds base as p and end
\* as pre.
InitBases == 0..33
InitLens == 1..300

InitNsizes ==
  /\ phase = "boot"
  /\ nsizes = 0
  /\ bd_base = NULL
  /\ bd_sizes = << >>
  /\ mem = {}
  /\ lock = {}
  /\ pc = [ t \in Threads |-> "idle" ]
  /\ arg = [ t \in Threads |-> 0 ]
  /\ m_left = [ meta |-> 0, free |-> 0 ]
  /\ m_right = [ meta |-> 0, free |-> 0 ]
  /\ live = EmptyBag
  /\ initFree = << >>
  /\ \E base \in InitBases : \E len \in InitLens :
       hist = [ op |-> "none", p |-> base, n |-> U64(0), pre |-> base + len ]

\* Lines 277-287 for the base and end that hist holds.
bd_init_nsizes_call ==
  /\ hist.op = "none"
  /\ bd_base' = ROUNDUP(hist.p, LEAF_SIZE)
  /\ nsizes' = bd_init_nsizes(ROUNDUP(hist.p, LEAF_SIZE), hist.pre)
  /\ hist' = [hist EXCEPT !.op = "nsizes"]
  /\ UNCHANGED << phase, bd_sizes, mem, lock, pc, arg, m_left, m_right,
                  live, initFree >>

NextNsizes == bd_init_nsizes_call

SpecNsizes == InitNsizes /\ [][NextNsizes]_vars
\* ======================================================== the properties
Ready == phase = "ready"
LiveSet == BagToSet(live)
Classes == DOMAIN bd_sizes
FreeNow == FreeSets(bd_sizes)

\* [a1, a1 + s1) and [a2, a2 + s2) have no byte in common.
Disjoint(a1, s1, a2, s2) == a1 + s1 <= a2 \/ a2 + s2 <= a1
\* [a1, a1 + s1) lies inside [a2, a2 + s2).
Inside(a1, s1, a2, s2) == a2 <= a1 /\ a1 + s1 <= a2 + s2

MetaStart == bd_base
MetaLen == m_left.meta
TailStart == bd_base + HEAP_SIZE - m_right.meta
TailLen == m_right.meta

RECURSIVE FreeBytesFrom(_, _)
FreeBytesFrom(fs, k) ==
  IF k \in DOMAIN fs
  THEN Cardinality(fs[k]) * (Pow2(k) * LEAF_SIZE) + FreeBytesFrom(fs, k + 1)
  ELSE 0
\* The bytes on the free lists fs (sets of addresses, one per size).
FreeBytes(fs) == FreeBytesFrom(fs, 0)

\* The size class a request of n bytes belongs to: BLK_SIZE(k-1) < n <= BLK_SIZE(k).
ClassOf(n) ==
  CHOOSE k \in 0..8 :
    /\ ~u64_lt(U64(Pow2(k) * LEAF_SIZE), n)
    /\ (k = 0 \/ u64_lt(U64(Pow2(k - 1) * LEAF_SIZE), n))

\* ---------------------------------------------------------------------- C1
\* C1: any two blocks held by callers at the same time have disjoint byte
\* ranges [p, p + BLK_SIZE(class of the request)), and no block is held twice.
C1_NoOverlap ==
  \A b1 \in LiveSet :
    /\ CopiesIn(b1, live) = 1
    /\ \A b2 \in LiveSet :
         b1 # b2 =>
           Disjoint(b1.addr, BLK_SIZE(b1.k), b2.addr, BLK_SIZE(b2.k))

\* Two blocks are held that were cut from the same free block: the second
\* starts where the first ends.
C1_Witness ==
  \E b1 \in LiveSet : \E b2 \in LiveSet :
    b1 # b2 /\ b1.addr + BLK_SIZE(b1.k) = b2.addr /\ hist.op = "malloc"

\* ---------------------------------------------------------------------- C2
\* C2: after bd_init the metadata range and the unavailable tail do not
\* overlap, and no block a caller holds intersects either of them.
C2_BoundaryNoOverlap ==
  Ready =>
    /\ Disjoint(MetaStart, MetaLen, TailStart, TailLen)
    /\ \A b \in LiveSet :
         /\ Disjoint(b.addr, BLK_SIZE(b.k), MetaStart, MetaLen)
         /\ Disjoint(b.addr, BLK_SIZE(b.k), TailStart, TailLen)

\* A caller holds the block right after the metadata and another holds the
\* block right before a non-empty tail.
C2_Witness ==
  /\ Ready
  /\ TailLen > 0
  /\ \E b \in LiveSet : b.addr = MetaStart + MetaLen
  /\ \E b \in LiveSet : b.addr + BLK_SIZE(b.k) = TailStart

\* ---------------------------------------------------------------------- C3
\* C3: coalescing completeness.  A block that was free at size k and of which
\* every piece handed out has been freed again is back on the free list of
\* size k, and no free list of a smaller size holds a block inside it.
C3_CoalescingComplete ==
  Ready =>
    \A k \in Classes : \A a \in initFree[k] :
      (\A b \in LiveSet :
         Disjoint(b.addr, BLK_SIZE(b.k), a, BLK_SIZE(k)))
      => /\ a \in FreeNow[k]
         /\ \A j \in 0..(k - 1) : \A q \in FreeNow[j] :
              ~Inside(q, BLK_SIZE(j), a, BLK_SIZE(k))

\* ---------------------------------------------------------------------- C4
\* C4: round trip.  After a bd_malloc that succeeded and the bd_free of its
\* result right after it, every free list holds the blocks it held before.
C4_RoundTrip == hist.op = "back" => FreeNow = hist.pre

\* ---------------------------------------------------------------------- C5
\* bd_malloc(n) finds a block on the free lists fs.
CanAlloc(fs, n) == \E k \in DOMAIN fs : k >= fk_of[n] /\ fs[k] # {}

\* C5: re-availability.  Whenever no block is held, every request size that
\* could be served right after bd_init can be served again.
C5_ReAvailable ==
  (Ready /\ LiveSet = {}) =>
    \A n \in Sizes : CanAlloc(initFree, U64(n)) => CanAlloc(FreeNow, U64(n))

\* ---------------------------------------------------------------------- C6
\* C6: exact fit.  A bd_malloc(n) that succeeded returned a block of the
\* class k with BLK_SIZE(k-1) < n <= BLK_SIZE(k): aligned to BLK_SIZE(k) from
\* bd_base, exactly BLK_SIZE(k) bytes left the free lists, the block is not
\* split at size k and its parent at size k + 1 is.
C6_ExactFit ==
  hist.op = "malloc" =>
    LET k == ClassOf(hist.n)
        p == hist.p
    IN /\ k < nsizes
       /\ (p - bd_base) % BLK_SIZE(k) = 0
       /\ FreeBytes(FreeNow) = FreeBytes(hist.pre) - BLK_SIZE(k)
       /\ [ addr |-> p, k |-> k ] \in LiveSet
       /\ k >= 1 => ~bit_isset(mem, bd_sizes[k].split, blk_index(k, p))
       /\ k + 1 < nsizes =>
            bit_isset(mem, bd_sizes[k + 1].split, blk_index(k + 1, p))

\* A request of 17 bytes was served by splitting a block of a larger size.
C6_Witness ==
  /\ hist.op = "malloc"
  /\ hist.n = U64(17)
  /\ \E k \in Classes : k > 1 /\ hist.pre[k] # FreeNow[k]

\* ---------------------------------------------------------------------- C7
\* A step in which thread t returns from bd_malloc.
MallocReturns(t) == pc[t] = "malloc" /\ pc'[t] = "idle"

\* C7: bd_malloc(n) returns 0 exactly when no free list of a size k with
\* firstk(n) <= k < nsizes is non-empty, and then it leaves every bitmap and
\* every free list as it was.
C7_FailsOnlyWhenEmpty ==
  [][ \A t \in Threads :
        MallocReturns(t) =>
          LET none == \A k \in Classes :
                        k >= fk_of[arg[t]] => bd_sizes[k].free = << >>
          IN /\ (hist'.op = "fail") <=> none
             /\ (hist'.op = "malloc") <=> ~none
             /\ hist'.op = "fail" =>
                  (mem' = mem /\ bd_sizes' = bd_sizes /\ live' = live)
    ]_vars

\* A request failed while callers hold blocks and smaller blocks are free.
C7_Witness ==
  /\ hist.op = "fail"
  /\ LiveSet # {}
  /\ \E k \in Classes : FreeNow[k] # {}

\* ---------------------------------------------------------------------- C8
\* C8: for every range, bd_init completes without the accounting panic, and
\* the bytes on the free lists plus the metadata bytes plus the bytes of the
\* unavailable tail are HEAP_SIZE.
C8_Accounting ==
  phase # "boot" =>
    /\ phase = "ready"
    /\ FreeBytes(initFree) + m_left.meta + m_right.meta = HEAP_SIZE

\* ---------------------------------------------------------------------- C9
\* C9: lock discipline.  A thread is inside bd_malloc or bd_free past the
\* acquire exactly when it holds the lock, at most one thread holds it, a
\* thread that has returned does not hold it, and the free lists and bitmaps
\* change only in a step of the thread holding the lock, which returns it.
C9_LockDiscipline ==
  /\ [](\A t \in Threads : (pc[t] # "idle") <=> (t \in lock))
  /\ [](Cardinality(lock) <= 1)
  /\ [][ (phase = "ready" /\ (bd_sizes' # bd_sizes \/ mem' # mem)) =>
           \E t \in Threads :
             /\ lock = {t}
             /\ pc[t] # "idle"
             /\ pc'[t] = "idle"
             /\ lock' = {}
       ]_vars

\* After a call that returned 0, another call is inside the lock while the
\* other thread is outside it.
C9_Witness ==
  /\ hist.op = "fail"
  /\ \E t \in Threads : \E u \in Threads :
       t # u /\ lock = {t} /\ pc[t] = "free" /\ pc[u] = "idle"

\* --------------------------------------------------------------------- C10
\* The leaves (LEAF_SIZE bytes each) of the heap.
Leaves == 0..(NBLK(0) - 1)
LeafIn(g, a, sz) == a <= bd_base + g * LEAF_SIZE /\ bd_base + g * LEAF_SIZE < a + sz
FreeEntries == UNION { { << k, i >> : i \in DOMAIN bd_sizes[k].free } : k \in Classes }
\* How many of the free-list entries fe (size, position, address), the held
\* blocks hb (block, copy) and the two reserved ranges the leaf g belongs to.
Owners(fe, hb, g) ==
  Cardinality({ e \in fe : LeafIn(g, e[3], BLK_SIZE(e[1])) })
  + Cardinality({ bc \in hb : LeafIn(g, bc[1].addr, BLK_SIZE(bc[1].k)) })
  + (IF LeafIn(g, MetaStart, MetaLen) THEN 1 ELSE 0)
  + (IF LeafIn(g, TailStart, TailLen) THEN 1 ELSE 0)

\* C10: byte conservation.  After bd_init and after every bd_malloc and
\* bd_free, every byte of [bd_base, bd_base + HEAP_SIZE) is in exactly one of:
\* a block on a free list, a block a caller holds, the metadata, the tail.
C10_ByteConservation ==
  Ready =>
    LET fe == { << e[1], e[2], bd_sizes[e[1]].free[e[2]] >> : e \in FreeEntries }
        hb == UNION { { << b, c >> : c \in 1..CopiesIn(b, live) } :
                      b \in LiveSet }
    IN \A g \in Leaves : Owners(fe, hb, g) = 1

\* Blocks are held, a block has been freed, and a split has put halves on
\* the free lists.
C10_Witness ==
  /\ Ready
  /\ hist.op = "free"
  /\ LiveSet # {}
  /\ FreeNow # initFree

\* --------------------------------------------------------------------- C11
\* C11: termination.  bd_malloc(nbytes) returns for every uint64 nbytes: no
\* call stays in the loop of firstk, whatever nbytes is, so every call in
\* progress is one that returns.
C11_Terminates ==
  \A t \in Threads :
    /\ pc[t] # "spin"
    /\ pc[t] = "malloc" => fk_of[arg[t]] # NoReturn

\* --------------------------------------------------------------------- C12
\* Block bi of size k lies inside a block that is on a free list.
InFree(k, bi) ==
  \E j \in Classes : \E q \in FreeNow[j] :
    Inside(addr(k, bi), BLK_SIZE(k), q, BLK_SIZE(j))
\* Block bi of size k is in use: held by a caller, split, or reserved.
InUse(k, bi) == ~InFree(k, bi)
\* The pairs of buddies of size k, as indices into the alloc array.
Pairs(k) == 0..((NBLK(k) \div 2) - 1)

\* C12: pair-bit encoding.  After bd_init and after every bd_malloc and
\* bd_free, for every size k < nsizes - 1 and every pair of buddies of that
\* size, the pair's alloc bit is 1 exactly when one of the two buddies is in
\* use and the other is not.
C12_PairBitEncoding ==
  Ready =>
    \A k \in 0..(nsizes - 2) : \A j \in Pairs(k) :
      bit_isset(mem, bd_sizes[k].alloc, j)
        <=> (InUse(k, 2 * j) # InUse(k, 2 * j + 1))

\* --------------------------------------------------------------------- C13
\* A step in which thread t returns from bd_free.
FreeReturns(t) == pc[t] = "free" /\ pc'[t] = "idle"
\* The buddy of block bi.
Buddy(bi) == IF bi % 2 = 0 THEN bi + 1 ELSE bi - 1
\* The blocks of size k, as indices.
Blocks(k) == 0..(NBLK(k) - 1)

\* C13: bd_free(p) of a block of size k whose buddy is in use (held, split or
\* reserved) does not merge: p is put on the free list of size k, every other
\* free list stays as it was (the buddy and its pieces are not removed and no
\* block appears on a list of a larger size), and no split bit is cleared.
C13_NoMergeBesideUsedBuddy ==
  [][ \A t \in Threads : \A b \in LiveSet :
        (FreeReturns(t) /\ b.addr = arg[t] /\ b.k < MAXSIZE
           /\ InUse(b.k, Buddy(blk_index(b.k, b.addr))))
        => /\ bd_sizes'[b.k].free = lst_push(bd_sizes[b.k].free, b.addr)
           /\ \A j \in Classes \ { b.k } :
                bd_sizes'[j].free = bd_sizes[j].free
           /\ \A j \in Classes \ { 0 } : \A i \in Blocks(j) :
                bit_isset(mem, bd_sizes[j].split, i)
                  => bit_isset(mem', bd_sizes'[j].split, i)
    ]_vars

\* A block was freed right after it was allocated while a caller holds its
\* buddy: the block is on the free list of its size, the buddy still held.
C13_Witness ==
  /\ hist.op = "back"
  /\ LET k == ClassOf(hist.n) IN
       /\ hist.p \in FreeNow[k]
       /\ [ addr |-> addr(k, Buddy(blk_index(k, hist.p))), k |-> k ] \in LiveSet

\* --------------------------------------------------------------------- C14
\* C14: free-list well-formedness.  Every block on the free list of size k
\* is a block of size k of the heap, overlaps no block a caller holds, is not
\* split (k >= 1), lies outside the metadata and the tail, and has no byte in
\* common with any other free-list entry, of its own list or of another: no
\* block is listed twice, none is on two lists, none contains another.
C14_FreeListsWellFormed ==
  Ready =>
    \A e \in FreeEntries :
      LET k == e[1]
          a == bd_sizes[k].free[e[2]]
      IN /\ (a - bd_base) % BLK_SIZE(k) = 0
         /\ Inside(a, BLK_SIZE(k), bd_base, HEAP_SIZE)
         /\ \A b \in LiveSet : Disjoint(a, BLK_SIZE(k), b.addr, BLK_SIZE(b.k))
         /\ k >= 1 => ~bit_isset(mem, bd_sizes[k].split, blk_index(k, a))
         /\ Disjoint(a, BLK_SIZE(k), MetaStart, MetaLen)
         /\ Disjoint(a, BLK_SIZE(k), TailStart, TailLen)
         /\ \A f \in FreeEntries \ { e } :
              Disjoint(a, BLK_SIZE(k),
                       bd_sizes[f[1]].free[f[2]], BLK_SIZE(f[1]))

\* Beside a non-empty tail, some free list holds three blocks while a caller
\* holds a block.
C14_Witness ==
  /\ Ready
  /\ TailLen > 0
  /\ LiveSet # {}
  /\ \E k \in Classes : Len(bd_sizes[k].free) >= 3

\* --------------------------------------------------------------------- C15
\* The sizes k below nsizes - 1 at which the parent of p's block, of size
\* k + 1, has its split bit set.
SplitParents(p) ==
  { k \in 0..(nsizes - 2) :
      bit_isset(mem, bd_sizes[k + 1].split, blk_index(k + 1, p)) }
\* The size the scan is to recover: the least such k, nsizes - 1 without one.
Recovered(p) ==
  IF SplitParents(p) = {} THEN nsizes - 1
  ELSE CHOOSE k \in SplitParents(p) : \A j \in SplitParents(p) : k <= j

LeastFree(fk) ==
  IF \A k \in Classes : k >= fk => bd_sizes[k].free = << >> THEN nsizes
  ELSE CHOOSE k \in Classes :
         /\ k >= fk /\ bd_sizes[k].free # << >>
         /\ \A j \in Classes : (j >= fk /\ j < k) => bd_sizes[j].free = << >>

\* C16: split on allocate.  A bd_malloc that returns a block p took it from
\* the free list of the least size k >= fk that had a block; exactly p left
\* that list; for every size j with fk <= j < k exactly the block
\* p + BLK_SIZE(j) was added to the list of size j; every other list stayed
\* as it was; the split bit of p's block is set at every size fk + 1 .. k; and
\* p is what the caller holds, at size fk.
C16_SplitOnAllocate ==
  [][ \A t \in Threads :
        (MallocReturns(t) /\ hist'.op = "malloc") =>
          LET fk == fk_of[arg[t]]
              k == LeastFree(fk)
              p == hist'.p
          IN /\ k < nsizes
             /\ p \in FreeNow[k]
             /\ \A j \in Classes :
                  bd_sizes'[j].free =
                    IF j = k THEN lst_remove(bd_sizes[j].free, p)
                    ELSE IF fk <= j /\ j < k
                         THEN << p + BLK_SIZE(j) >> \o bd_sizes[j].free
                         ELSE bd_sizes[j].free
             /\ Len(bd_sizes'[k].free) = Len(bd_sizes[k].free) - 1
             /\ \A j \in (fk + 1)..k :
                  bit_isset(mem', bd_sizes'[j].split, blk_index(j, p))
             /\ live' = live (+) SetToBag({ [ addr |-> p, k |-> fk ] })
    ]_vars

\* A request for a leaf was served from a block four times as large: the
\* block was halved twice.
C16_Witness ==
  /\ hist.op = "malloc"
  /\ hist.n = U64(1)
  /\ hist.p \in hist.pre[2]
  /\ hist.p + BLK_SIZE(0) \in FreeNow[0]
  /\ hist.p + BLK_SIZE(1) \in FreeNow[1]

\* --------------------------------------------------------------------- C17
\* C17: frame of allocate.  A bd_malloc that returns a block taken from size
\* k for a request of size fk changes the free lists, the alloc bits and the
\* split bits of the sizes fk..k only: for every other size the free list,
\* every pair's alloc bit and every block's split bit are as before.
C17_AllocateFrame ==
  [][ \A t \in Threads :
        (MallocReturns(t) /\ hist'.op = "malloc") =>
          LET fk == fk_of[arg[t]]
              k == LeastFree(fk)
          IN \A j \in Classes :
               (j < fk \/ j > k) =>
                 /\ bd_sizes'[j] = bd_sizes[j]
                 /\ \A i \in Pairs(j) :
                      bit_isset(mem', bd_sizes[j].alloc, i)
                        <=> bit_isset(mem, bd_sizes[j].alloc, i)
                 /\ j >= 1 =>
                      \A i \in Blocks(j) :
                        bit_isset(mem', bd_sizes[j].split, i)
                          <=> bit_isset(mem, bd_sizes[j].split, i)
    ]_vars

\* --------------------------------------------------------------------- C18
\* Block bi of size k lies inside a block a caller holds.
InHeld(k, bi) ==
  \E b \in LiveSet :
    Inside(addr(k, bi), BLK_SIZE(k), b.addr, BLK_SIZE(b.k))
\* Block bi of size k is divided: it is neither free nor held as a whole nor
\* part of a larger free or held block, so each half of it is free, held,
\* reserved or divided in turn.
Divided(k, bi) == ~InFree(k, bi) /\ ~InHeld(k, bi)

\* C18: split-bit invariant.  After bd_init and after every bd_malloc and
\* bd_free, for every size k >= 1 and every block of that size, the block's
\* split bit is set exactly when the block is divided.
C18_SplitBits ==
  Ready =>
    \A k \in Classes \ { 0 } : \A bi \in Blocks(k) :
      bit_isset(mem, bd_sizes[k].split, bi) <=> Divided(k, bi)

\* --------------------------------------------------------------------- C19
\* C19: number of sizes.  For every base and end > base, the nsizes bd_init
\* computes makes HEAP_SIZE = LEAF_SIZE * 2^(nsizes - 1) at least
\* end - ROUNDUP(base, LEAF_SIZE), no smaller nsizes >= 1 does, and
\* HEAP_SIZE < 2 * (end - base) when end - base >= LEAF_SIZE.
C19_NumberOfSizes ==
  hist.op = "nsizes" =>
    LET base == hist.p
        end == hist.pre
    IN /\ nsizes >= 1
       /\ HEAP_SIZE >= end - ROUNDUP(base, LEAF_SIZE)
       /\ nsizes > 1 => BLK_SIZE(nsizes - 2) < end - ROUNDUP(base, LEAF_SIZE)
       /\ end - base >= LEAF_SIZE => HEAP_SIZE < 2 * (end - base)

\* From the unaligned base 24, a range of 300 bytes of which 292 lie above
\* bd_base, not a power of two: nsizes was rounded up to 6, a heap of 512
\* bytes.
C19_Witness ==
  /\ hist.op = "nsizes"
  /\ hist.p = 24
  /\ hist.pre = 324
  /\ bd_base = 32
  /\ nsizes = 6

\* --------------------------------------------------------------------- C20
\* The bits of the alloc array of size k that belong to its pairs, and the
\* bits of the split array of size k that belong to its blocks.
AllocBits(k) == { 8 * bd_sizes[k].alloc + i : i \in Pairs(k) }
SplitBits(k) == { 8 * bd_sizes[k].split + i : i \in Blocks(k) }
\* The bitmaps: the alloc arrays of every size, the split arrays of sizes >= 1.
Bitmaps ==
  { << "alloc", k >> : k \in Classes } \cup
  { << "split", k >> : k \in Classes \ { 0 } }
BitsOf(b) == IF b[1] = "alloc" THEN AllocBits(b[2]) ELSE SplitBits(b[2])
\* The bytes bd_init gave to the bitmap b.
BytesOf(b) ==
  IF b[1] = "alloc" THEN alloc_sz(b[2], nsizes) ELSE split_sz(b[2], nsizes)

\* C20: bitmap storage layout.  After bd_init every bitmap has at least one
\* bit of storage for each pair (alloc) or block (split) of its size, and no
\* bit of one bitmap is a bit of another.
C20_BitmapLayout ==
  phase # "boot" =>
    \A b \in Bitmaps :
      /\ 8 * BytesOf(b) >= Cardinality(BitsOf(b))
      /\ \A c \in Bitmaps \ { b } : BitsOf(b) \cap BitsOf(c) = {}
====
